---- MODULE Spec2Model ----
(***************************************************************************)
(* PI9696 recorder: the application controller of src/main.go.             *)
(*                                                                         *)
(* The controller is a set of package-level variables guarded by one       *)
(* sync.Mutex.  Four kinds of goroutine touch them: the event handlers the *)
(* hardware loops start (go callback(...)), the 100 ms render tick, the    *)
(* 1 s volume poller and the copy goroutine of startCopyOperation.  A      *)
(* handler that takes the mutex and returns without blocking is one step;  *)
(* a handler that blocks inside its critical section (cmd.Wait, cmd.Run,   *)
(* time.Sleep) keeps the mutex over several steps.                         *)
(***************************************************************************)
EXTENDS Integers, Sequences, FiniteSets, TLC

(* ------------------------------ bounds --------------------------------- *)

\* recording files that may exist under /rec (named 1..MaxFiles, in sort order)
MaxFiles == 2
\* values time.Now() takes: 1..MaxTime (0 is the zero time.Time)
MaxTime == 2
\* Rotate events handled on the sample-rate / channel-count items
MaxAdjust == 1
\* copy goroutines that may be alive together
MaxTasks == 2
\* handler goroutines that may be waiting for the controller mutex together
MaxPending == 2
MaxFaults == 1

(* ------------------------- program constants --------------------------- *)

MaxChannelCount == 128

StateIdle == "Idle"
StateRecording == "Recording"
StateSettings == "Settings"
StateCopyFiles == "CopyFiles"
StateCopying == "Copying"
StateSystemOptions == "SystemOptions"
StateNetworkInfo == "NetworkInfo"
StateConfirm == "Confirm"

AppState ==
  {StateIdle, StateRecording, StateSettings, StateCopyFiles, StateCopying,
   StateSystemOptions, StateNetworkInfo, StateConfirm}

SettingsMenu == "SettingsMenu"
DeleteConfirm == "DeleteConfirm"
FormatConfirm == "FormatConfirm"
ShutdownConfirm == "ShutdownConfirm"
RestartConfirm == "RestartConfirm"

MenuMode ==
  {SettingsMenu, DeleteConfirm, FormatConfirm, ShutdownConfirm, RestartConfirm}

ConfirmNo == "No"
ConfirmYes == "Yes"

RecordButton == "Record"
StopButton == "Stop"
PlayButton == "Play"

ButtonType == {RecordButton, StopButton, PlayButton}

sampleRates == <<44100, 48000, 96000, 192000>>

\* gpio.Level
Low == "Low"
High == "High"

\* the events the sampling loops deliver, named by their callback
RotateEvent(direction) == IF direction = 1 THEN "Rotate+" ELSE "Rotate-"

Events == {"Rotate+", "Rotate-", "Click", "Hold"} \cup ButtonType

\* the order in which setupHardwareCallbacks sets the six callbacks
callbackOrder ==
  <<"Rotate", "Click", "Hold", RecordButton, StopButton, PlayButton>>

\* the values time.Now() takes in a sampling loop, in milliseconds
Instants == {1000, 1040, 1049, 1050, 1051, 1200, 3999, 4000, 4200}

\* the names a recording under /rec can have
FileNames == 1..MaxFiles

\* total capacity of the mounted volume, in MiB, as Statfs may report it
Capacities == {512, 3788}

(* ------------------------------ state ---------------------------------- *)

VARIABLES
  currentState,      \* AppState
  menuMode,          \* MenuMode
  selectedMenu,      \* cursor
  menuScrollOffset,  \* first visible item
  confirmOption,     \* ConfirmNo / ConfirmYes
  sampleRateIdx,     \* 0-based index into sampleRates
  channelCount,
  isRecording,
  isCopying,
  recordStart,       \* 0 = zero time
  recordingFile,     \* <<>> = "" ; else <<timestamp, channels, kHz>>
  infernoPipeCmd,    \* "nil" | "unstarted" (Process == nil) | "started"
  usbMounted,
  usbSize,
  filesToCopy,       \* map name -> selected
  allFiles,          \* sorted list of names
  copyProgress,
  mutex,             \* "free" | "handler"
  blocked,           \* the blocking call the mutex holder is in, or "none"
  capture,           \* live capture processes
  recordings,        \* *.wav files under /rec
  tasks,             \* copy goroutines
  visitRotated,      \* history: a Rotate was handled since Confirm was entered
  adjusts,           \* history: Rotate events handled on items 0 and 1
  racy,              \* shared fields the last step touched without the mutex
  lastA,             \* Encoder.lastA
  lastB,             \* Encoder.lastB
  buttonDown,        \* Encoder.buttonDown
  buttonTime,        \* Encoder.buttonTime
  pressed,           \* Button.pressed, by button
  lastPress,         \* Button.lastPress, by button (0 = zero time)
  level,             \* history: the last sample of the button read it active
  clock,             \* the last value time.Now() returned to a sampling loop
  registered,        \* callbacks setupHardwareCallbacks has set so far
  pending,           \* handler goroutines started and not yet in their handler
  emitted,           \* history: the events the last sample detected
  currentFont,       \* FiraCodeManager.currentFont
  currentSize,       \* FiraCodeManager.currentSize
  buffer,            \* the buffer of FiraCodeManager.display: the items in it
  todo,              \* the calls render has still to make in this tick
  phase,             \* the writes the Update in progress has made
  bus,               \* history: the writes on the panel bus in this tick
  drawn              \* history: the items drawn in this tick

ctl ==
  <<currentState, menuMode, selectedMenu, menuScrollOffset, confirmOption,
    sampleRateIdx, channelCount, isRecording, isCopying, recordStart,
    recordingFile, infernoPipeCmd, usbMounted, usbSize, filesToCopy, allFiles,
    copyProgress>>

vars ==
  <<currentState, menuMode, selectedMenu, menuScrollOffset, confirmOption,
    sampleRateIdx, channelCount, isRecording, isCopying, recordStart,
    recordingFile, infernoPipeCmd, usbMounted, usbSize, filesToCopy, allFiles,
    copyProgress, mutex, blocked, capture, recordings, tasks,
    visitRotated, adjusts, racy, lastA, lastB, buttonDown, buttonTime,
    pressed, lastPress, level, clock, registered, pending, emitted,
    currentFont, currentSize, buffer, todo, phase, bus, drawn>>

\* the font manager, its display, and render's position in its tick
disp == <<currentFont, currentSize, buffer, todo, phase, bus, drawn>>

\* the state of the two sampling loops, but for the goroutines they started
inp ==
  <<lastA, lastB, buttonDown, buttonTime, pressed, lastPress, level, clock,
    registered, emitted>>

hw == <<inp, pending, disp>>

\* a copy goroutine: its position, its selectedFiles, its loop index, and (a
\* history field) whether a Hold was handled in Copying while it was alive
NoTask ==
  [pc |-> "none", sel |-> <<>>, i |-> 0, cancelled |-> FALSE, err |-> FALSE]

\* the files of a set in sort.Strings order
RECURSIVE SortedSeq(_)
SortedSeq(S) ==
  IF S = {} THEN <<>>
  ELSE LET m == CHOOSE x \in S : \A y \in S : x <= y
       IN <<m>> \o SortedSeq(S \ {m})

\* var ( ... ) of main.go, with the environment the program starts in; the
\* state, the cursor, the confirm option, the copy goroutines alive and the
\* two recording parameters and the selection are parameters so that InitNav,
\* InitRerun, InitAdjust and InitSelect can share the rest
BootCtl(state, cursor, option, alive, rateIdx, channels, selection) ==
  /\ currentState = state
  /\ menuMode = SettingsMenu
  /\ selectedMenu = cursor
  /\ menuScrollOffset = 0
  /\ confirmOption = option
  /\ sampleRateIdx = rateIdx
  /\ channelCount = channels
  /\ isRecording = FALSE
  /\ isCopying = FALSE
  /\ recordStart = 0
  /\ recordingFile = <<>>
  /\ infernoPipeCmd = "nil"
  /\ usbMounted = FALSE
  /\ usbSize = ""
  /\ filesToCopy = selection
  /\ allFiles = SortedSeq(DOMAIN selection)
  /\ copyProgress = 0
  /\ mutex = "free"
  /\ blocked = "none"
  /\ capture = 0
  /\ recordings \in SUBSET FileNames
  /\ tasks = alive
  /\ visitRotated = FALSE
  /\ adjusts = 0
  /\ racy = {}

\* NewFiraCodeManager: the Regular face at the MainContent size, on a display
\* NewTTFDisplay has just made; render has not run yet
NewFiraCodeManager ==
  /\ currentFont = "Regular"
  /\ currentSize = 11
  /\ buffer = {}
  /\ todo = <<>>
  /\ phase = 0
  /\ bus = <<>>
  /\ drawn = {}

\* the sampling loops at rest with every callback set: lines high, nothing
\* pressed, no handler goroutine waiting
HwRest ==
  /\ lastA = High
  /\ lastB = High
  /\ buttonDown = FALSE
  /\ buttonTime = 0
  /\ pressed = [b \in ButtonType |-> FALSE]
  /\ lastPress = [b \in ButtonType |-> 0]
  /\ level = [b \in ButtonType |-> FALSE]
  /\ clock = 0
  /\ registered = Len(callbackOrder)
  /\ pending = [ev \in Events |-> 0]
  /\ emitted = {}
  /\ NewFiraCodeManager

BootWith(state, cursor, option, alive, rateIdx, channels, selection) ==
  /\ BootCtl(state, cursor, option, alive, rateIdx, channels, selection)
  /\ HwRest

Boot(state, cursor) ==
  BootWith(state, cursor, ConfirmNo, [t \in 1..MaxTasks |-> NoTask], 1, 2,
           <<>>)

Init == Boot(StateIdle, 0)

(* --------------------------- pure helpers ------------------------------ *)

RECURSIVE Pow2(_)
Pow2(k) == IF k = 0 THEN 1 ELSE 2 * Pow2(k - 1)

\* math.Round(math.Log2(v)) for v >= 1: the k with 2^(k-1/2) <= v < 2^(k+1/2)
RECURSIVE RoundLog2(_, _)
RoundLog2(v, k) ==
  IF v * v < Pow2(2 * k + 1) THEN k ELSE RoundLog2(v, k + 1)

\* math.Floor(math.Log2(v)) for v >= 1: the k with 2^k <= v < 2^(k+1)
RECURSIVE FloorLog2(_, _)
FloorLog2(v, k) ==
  IF v < Pow2(k + 1) THEN k ELSE FloorLog2(v, k + 1)

\* mutant of roundToPowerOfTwo: the exponent is truncated
roundToPowerOfTwo_Floor(value) ==
  IF value <= 0 THEN 1 ELSE Pow2(FloorLog2(value, 0))

roundToPowerOfTwo(value) ==
  IF value <= 0 THEN 1 ELSE Pow2(RoundLog2(value, 0))

\* getUSBSize on a volume of mib MiB
getUSBSize(mib) ==
  IF mib < 1024 THEN ToString(roundToPowerOfTwo(mib)) \o "mb"
  ELSE IF mib < 1024 * 1024
    THEN ToString(roundToPowerOfTwo(mib \div 1024)) \o "GB"
    ELSE ToString(roundToPowerOfTwo(mib \div (1024 * 1024))) \o "TB"

adjustSampleRate(direction) ==
  LET n == sampleRateIdx + direction
  IN IF n < 0 THEN Len(sampleRates) - 1
     ELSE IF n >= Len(sampleRates) THEN 0 ELSE n

\* mutant of adjustChannelCount: the two clamps dropped
adjustChannelCount_NoClamp(direction) == channelCount + direction

adjustChannelCount(direction) ==
  LET n == channelCount + direction
  IN IF n < 1 THEN 1
     ELSE IF n > MaxChannelCount THEN MaxChannelCount ELSE n

maxItems ==
  CASE currentState = StateSettings -> 6
    [] currentState = StateCopyFiles -> Len(allFiles) + 3
    [] currentState = StateSystemOptions -> 5
    [] OTHER -> 0

\* mutant of navigateMenu: the two wrap tests dropped
navigateMenu_NoWrap(direction) == selectedMenu + direction

navigateMenu(direction) ==
  LET n == selectedMenu + direction
  IN IF n < 0 THEN maxItems - 1
     ELSE IF n >= maxItems THEN 0 ELSE n

(* ------------------------- event delivery ------------------------------ *)

\* the callback of an event has been set
callbackSet(ev) ==
  LET name == IF ev \in {"Rotate+", "Rotate-"} THEN "Rotate" ELSE ev
  IN \E k \in 1..registered : callbackOrder[k] = name

Total(bag) ==
  bag["Rotate+"] + bag["Rotate-"] + bag["Click"] + bag["Hold"]
    + bag[RecordButton] + bag[StopButton] + bag[PlayButton]

\* mutant of emit: the callback is called in the sampling loop itself, which
\* then waits for the controller mutex
emit_Sync(ev) ==
  IF callbackSet(ev)
  THEN /\ mutex = "free"
       /\ Total(pending) < MaxPending
       /\ pending' = [pending EXCEPT ![ev] = @ + 1]
  ELSE UNCHANGED pending

\* if callback != nil { go callback(...) }: a handler goroutine is started
\* when the callback is set, and nothing happens when it is not
emit(ev) ==
  IF callbackSet(ev)
  THEN /\ Total(pending) < MaxPending
       /\ pending' = [pending EXCEPT ![ev] = @ + 1]
  ELSE UNCHANGED pending

\* a handler enters its critical section: the goroutine started for the event
\* (in the specifications without sampling loops the event is an input)
consume(ev) ==
  pending' = IF pending[ev] > 0 THEN [pending EXCEPT ![ev] = @ - 1]
             ELSE pending

(* ----------------------- recording session ---------------------------- *)

\* mutant of RecordHonoured: the !isRecording test dropped
RecordHonoured_StateOnly == currentState = StateIdle

\* the guard of the Record case of onButtonPress
RecordHonoured == currentState = StateIdle /\ ~isRecording

\* startRecording: the session fields are written before cmd.Start() is tried
startRecording ==
  /\ recordStart < MaxTime
  /\ \E now \in (recordStart + 1)..MaxTime, started \in BOOLEAN :
       /\ recordStart' = now
       /\ recordingFile' =
            <<now, channelCount, sampleRates[sampleRateIdx + 1] \div 1000>>
       /\ IF started
          THEN /\ infernoPipeCmd' = "started"
               /\ capture' = capture + 1
               /\ isRecording' = TRUE
               /\ currentState' = StateRecording
          ELSE /\ infernoPipeCmd' = "unstarted"
               /\ UNCHANGED <<capture, isRecording, currentState>>
  /\ UNCHANGED <<mutex, blocked>>

\* stopRecording up to cmd.Wait(): with a started process the handler signals
\* it and blocks in Wait, the mutex still held (defer mutex.Unlock())
stopRecording ==
  IF infernoPipeCmd = "started"
  THEN /\ mutex' = "handler"
       /\ blocked' = "wait"
       /\ UNCHANGED <<infernoPipeCmd, isRecording, currentState>>
  ELSE /\ isRecording' = FALSE
       /\ currentState' = StateIdle
       /\ UNCHANGED <<infernoPipeCmd, mutex, blocked>>

\* cmd.Wait() returns once the process has exited; the rest of stopRecording
\* and the deferred unlock of onButtonPress follow
WaitReturns ==
  /\ blocked = "wait"
  /\ capture = 0
  /\ infernoPipeCmd' = "nil"
  /\ isRecording' = FALSE
  /\ currentState' = StateIdle
  /\ mutex' = "free"
  /\ blocked' = "none"
  /\ racy' = {}
  /\ UNCHANGED hw
  /\ UNCHANGED <<menuMode, selectedMenu, menuScrollOffset, confirmOption,
                 sampleRateIdx, channelCount, isCopying, recordStart,
                 recordingFile, usbMounted, usbSize, filesToCopy, allFiles,
                 copyProgress, capture, recordings, tasks,
                 visitRotated, adjusts>>

\* the external capture process ends (after SIGTERM, or by itself)
ProcExit ==
  /\ capture > 0
  /\ capture' = capture - 1
  /\ racy' = {}
  /\ UNCHANGED hw
  /\ UNCHANGED <<ctl, mutex, blocked, recordings, tasks,
                 visitRotated, adjusts>>

onButtonPress(buttonType) ==
  /\ mutex = "free"
  /\ racy' = {}
  /\ consume(buttonType)
  /\ UNCHANGED <<inp, disp>>
  /\ CASE buttonType = RecordButton /\ RecordHonoured -> startRecording
       [] buttonType = StopButton /\ isRecording ->
            stopRecording /\ UNCHANGED <<recordStart, recordingFile, capture>>
       [] OTHER ->
            UNCHANGED <<currentState, isRecording, recordStart, recordingFile,
                        infernoPipeCmd, capture, mutex, blocked>>
  /\ UNCHANGED <<menuMode, selectedMenu, menuScrollOffset, confirmOption,
                 sampleRateIdx, channelCount, isCopying, usbMounted, usbSize,
                 filesToCopy, allFiles, copyProgress, recordings,
                 tasks, visitRotated, adjusts>>

(* --------------------------- encoder events ---------------------------- *)

\* mutant of toggleOption: a Rotate selects Yes
toggleOption_YesOnly == ConfirmYes

\* the StateConfirm case of onEncoderRotate
toggleOption == IF confirmOption = ConfirmNo THEN ConfirmYes ELSE ConfirmNo

\* mutant of rotateNavigates: the cursor also moves in NetworkInfo
rotateNavigates_NetworkInfo ==
  currentState \in {StateCopyFiles, StateSystemOptions, StateNetworkInfo}

\* the cases of onEncoderRotate that only call navigateMenu
rotateNavigates == currentState \in {StateCopyFiles, StateSystemOptions}

onEncoderRotate(direction) ==
  /\ mutex = "free"
  /\ racy' = {}
  /\ consume(RotateEvent(direction))
  /\ UNCHANGED <<inp, disp>>
  /\ CASE currentState = StateSettings /\ selectedMenu = 0 ->
            /\ adjusts < MaxAdjust
            /\ sampleRateIdx' = adjustSampleRate(direction)
            /\ adjusts' = adjusts + 1
            /\ UNCHANGED <<channelCount, selectedMenu, confirmOption,
                           visitRotated>>
       [] currentState = StateSettings /\ selectedMenu = 1 ->
            /\ adjusts < MaxAdjust
            /\ channelCount' = adjustChannelCount(direction)
            /\ adjusts' = adjusts + 1
            /\ UNCHANGED <<sampleRateIdx, selectedMenu, confirmOption,
                           visitRotated>>
       [] currentState = StateSettings /\ selectedMenu \notin {0, 1} ->
            /\ selectedMenu' = navigateMenu(direction)
            /\ UNCHANGED <<sampleRateIdx, channelCount, adjusts,
                           confirmOption, visitRotated>>
       [] rotateNavigates ->
            /\ selectedMenu' = navigateMenu(direction)
            /\ UNCHANGED <<sampleRateIdx, channelCount, adjusts,
                           confirmOption, visitRotated>>
       [] currentState = StateConfirm ->
            /\ confirmOption' = toggleOption
            /\ visitRotated' = TRUE
            /\ UNCHANGED <<sampleRateIdx, channelCount, adjusts,
                           selectedMenu>>
       [] OTHER ->
            UNCHANGED <<sampleRateIdx, channelCount, adjusts, selectedMenu,
                        confirmOption, visitRotated>>
  /\ UNCHANGED <<currentState, menuMode, menuScrollOffset, isRecording,
                 isCopying, recordStart, recordingFile, infernoPipeCmd,
                 usbMounted, usbSize, filesToCopy, allFiles, copyProgress,
                 mutex, blocked, capture, recordings, tasks>>

\* mutants of holdResets: the Recording exclusion dropped; one menu forgotten
holdResets_NotIdle == currentState # StateIdle

holdResets_NotNetworkInfo ==
  /\ currentState # StateIdle
  /\ currentState # StateRecording
  /\ currentState # StateNetworkInfo

\* a third mutant: Confirm is not left by a Hold
holdResets_NotConfirm ==
  /\ currentState # StateIdle
  /\ currentState # StateRecording
  /\ currentState # StateConfirm

\* the else-if test of onEncoderHold
holdResets == currentState # StateIdle /\ currentState # StateRecording

\* onEncoderHold: the Copying branch clears the flag the copy goroutine polls
onEncoderHold ==
  /\ mutex = "free"
  /\ racy' = {}
  /\ consume("Hold")
  /\ UNCHANGED <<inp, disp>>
  /\ CASE currentState = StateCopying ->
            /\ isCopying' = FALSE
            /\ currentState' = StateIdle
            /\ tasks' = [t \in 1..MaxTasks |->
                           IF tasks[t].pc = "none" THEN tasks[t]
                           ELSE [tasks[t] EXCEPT !.cancelled = TRUE]]
            /\ UNCHANGED <<selectedMenu, menuScrollOffset>>
       [] currentState # StateCopying /\ holdResets ->
            /\ currentState' = StateIdle
            /\ selectedMenu' = 0
            /\ menuScrollOffset' = 0
            /\ UNCHANGED <<isCopying, tasks>>
       [] OTHER ->
            UNCHANGED <<currentState, selectedMenu, menuScrollOffset,
                        isCopying, tasks>>
  /\ UNCHANGED <<menuMode, confirmOption, sampleRateIdx, channelCount,
                 isRecording, recordStart, recordingFile, infernoPipeCmd,
                 usbMounted, usbSize, filesToCopy, allFiles, copyProgress,
                 mutex, blocked, capture, recordings,
                 visitRotated, adjusts>>

(* ------------------------------ clicks --------------------------------- *)

\* mutant of loadFilesToCopy: the flags of files already known are kept
loadFilesToCopy_KeepFlags ==
  /\ allFiles' = SortedSeq(recordings)
  /\ filesToCopy' = [f \in recordings |->
                       IF f \in DOMAIN filesToCopy THEN filesToCopy[f]
                       ELSE TRUE]

\* loadFilesToCopy: both collections are rebuilt from the *.wav files of /rec
loadFilesToCopy ==
  /\ allFiles' = SortedSeq(recordings)
  /\ filesToCopy' = [f \in recordings |-> TRUE]

\* mutant of copyOffered: case 2 without its test
copyOffered_Always == TRUE

\* the test of case 2 (Copy Files) of handleSettingsClick
copyOffered == usbMounted

handleSettingsClick ==
  /\ CASE selectedMenu = 2 /\ copyOffered ->
            /\ loadFilesToCopy
            /\ currentState' = StateCopyFiles
            /\ selectedMenu' = 0
            /\ menuScrollOffset' = 0
       [] selectedMenu = 3 ->
            /\ currentState' = StateSystemOptions
            /\ selectedMenu' = 0
            /\ menuScrollOffset' = 0
            /\ UNCHANGED <<allFiles, filesToCopy>>
       [] selectedMenu = 4 ->
            /\ currentState' = StateNetworkInfo
            /\ selectedMenu' = 0
            /\ menuScrollOffset' = 0
            /\ UNCHANGED <<allFiles, filesToCopy>>
       [] selectedMenu = 5 ->
            /\ currentState' = StateIdle
            /\ menuScrollOffset' = 0
            /\ UNCHANGED <<selectedMenu, allFiles, filesToCopy>>
       [] OTHER ->
            UNCHANGED <<currentState, selectedMenu, menuScrollOffset,
                        allFiles, filesToCopy>>
  /\ UNCHANGED <<menuMode, confirmOption, visitRotated, isCopying,
                 copyProgress, tasks, mutex, blocked, recordings>>

\* startCopyOperation up to the go statement: the goroutine is created with
\* the state already Copying
startCopyOperation ==
  IF ~usbMounted
  THEN UNCHANGED <<currentState, isCopying, copyProgress, tasks>>
  ELSE /\ \E t \in 1..MaxTasks : tasks[t].pc = "none"
       /\ LET t == CHOOSE t \in 1..MaxTasks :
                     /\ tasks[t].pc = "none"
                     /\ \A u \in 1..(t - 1) : tasks[u].pc # "none"
          IN tasks' = [tasks EXCEPT ![t] = [NoTask EXCEPT !.pc = "select"]]
       /\ currentState' = StateCopying
       /\ isCopying' = TRUE
       /\ copyProgress' = 0

handleCopyFilesClick ==
  /\ CASE selectedMenu = 0 ->
            startCopyOperation /\ UNCHANGED filesToCopy
       [] selectedMenu = 1 ->
            /\ filesToCopy' = [f \in DOMAIN filesToCopy |-> TRUE]
            /\ UNCHANGED <<currentState, isCopying, copyProgress, tasks>>
       [] selectedMenu = 2 ->
            /\ filesToCopy' = [f \in DOMAIN filesToCopy |-> FALSE]
            /\ UNCHANGED <<currentState, isCopying, copyProgress, tasks>>
       [] selectedMenu >= 3 /\ selectedMenu - 3 < Len(allFiles) ->
            /\ LET file == allFiles[selectedMenu - 2]
               IN filesToCopy' = [filesToCopy EXCEPT ![file] = ~filesToCopy[file]]
            /\ UNCHANGED <<currentState, isCopying, copyProgress, tasks>>
       [] OTHER ->
            UNCHANGED <<filesToCopy, currentState, isCopying, copyProgress,
                        tasks>>
  /\ UNCHANGED <<menuMode, selectedMenu, menuScrollOffset, confirmOption,
                 visitRotated, allFiles, mutex, blocked, recordings>>

\* mutant of confirmDefault: the option of the last visit is kept
confirmDefault_Kept == confirmOption

\* the option every branch of handleSystemOptionsClick that enters Confirm
\* assigns
confirmDefault == ConfirmNo

\* the menuMode each action item of System Options asks to confirm
ConfirmFor(item) ==
  CASE item = 0 -> DeleteConfirm
    [] item = 1 -> FormatConfirm
    [] item = 2 -> ShutdownConfirm
    [] item = 3 -> RestartConfirm

\* mutant of formatOffered: case 1 without its test
formatOffered_Always == TRUE

\* the test of case 1 (Format USB Drive) of handleSystemOptionsClick
formatOffered == usbMounted

handleSystemOptionsClick ==
  /\ CASE selectedMenu \in {0, 2, 3} \/ (selectedMenu = 1 /\ formatOffered) ->
            /\ menuMode' = ConfirmFor(selectedMenu)
            /\ currentState' = StateConfirm
            /\ confirmOption' = confirmDefault
            /\ visitRotated' = FALSE
            /\ UNCHANGED <<selectedMenu, menuScrollOffset>>
       [] selectedMenu = 4 ->
            /\ currentState' = StateSettings
            /\ selectedMenu' = 0
            /\ menuScrollOffset' = 0
            /\ UNCHANGED <<menuMode, confirmOption, visitRotated>>
       [] OTHER ->
            UNCHANGED <<menuMode, currentState, confirmOption, visitRotated,
                        selectedMenu, menuScrollOffset>>
  /\ UNCHANGED <<allFiles, filesToCopy, isCopying, copyProgress, tasks, mutex,
                 blocked, recordings>>

\* the command handleConfirmClick runs for a menuMode
ActionOf(mode) ==
  CASE mode = DeleteConfirm -> "delete"
    [] mode = FormatConfirm -> "format"
    [] mode = ShutdownConfirm -> "shutdown"
    [] mode = RestartConfirm -> "reboot"
    [] OTHER -> "none"

Actions == {"delete", "format", "shutdown", "reboot"}

\* mutant of ConfirmAccepted: the option is not looked at
ConfirmAccepted_Always == TRUE

\* the test handleConfirmClick makes before it runs anything
ConfirmAccepted == confirmOption = ConfirmYes

\* mutant of formatPossible: formatUSB without its first test
formatPossible_Always == TRUE

\* the test formatUSB makes before it runs umount and mkfs
formatPossible == usbMounted

\* handleConfirmClick up to the action: deleteAllRecordings, formatUSB and the
\* two exec.Command(...).Run() calls are made inside the critical section;
\* formatUSB returns at once when no volume is mounted
handleConfirmClick ==
  /\ IF /\ ConfirmAccepted
        /\ ActionOf(menuMode) # "none"
        /\ (menuMode = FormatConfirm => formatPossible)
     THEN /\ blocked' = ActionOf(menuMode)
          /\ mutex' = "handler"
          /\ recordings' = IF menuMode = DeleteConfirm THEN {} ELSE recordings
          /\ UNCHANGED currentState
     ELSE /\ currentState' = StateIdle
          /\ UNCHANGED <<blocked, mutex, recordings>>
  /\ UNCHANGED <<menuMode, selectedMenu, menuScrollOffset, confirmOption,
                 visitRotated, allFiles, filesToCopy, isCopying, copyProgress,
                 tasks>>

\* the action returns; handleConfirmClick sets the state and onEncoderClick's
\* deferred unlock runs
ActionReturns ==
  /\ blocked \in Actions
  /\ currentState' = StateIdle
  /\ mutex' = "free"
  /\ blocked' = "none"
  /\ racy' = {}
  /\ UNCHANGED hw
  /\ UNCHANGED <<menuMode, selectedMenu, menuScrollOffset, confirmOption,
                 sampleRateIdx, channelCount, isRecording, isCopying,
                 recordStart, recordingFile, infernoPipeCmd, usbMounted,
                 usbSize, filesToCopy, allFiles, copyProgress, capture,
                 recordings, tasks, visitRotated, adjusts>>

\* mutant of clickOpensSettings: the !isRecording test dropped
clickOpensSettings_StateOnly == currentState = StateIdle

\* the StateIdle case of onEncoderClick with its if !isRecording
clickOpensSettings == currentState = StateIdle /\ ~isRecording

onEncoderClick ==
  /\ mutex = "free"
  /\ racy' = {}
  /\ consume("Click")
  /\ UNCHANGED <<inp, disp>>
  /\ CASE clickOpensSettings ->
            /\ currentState' = StateSettings
            /\ selectedMenu' = 0
            /\ UNCHANGED <<menuMode, menuScrollOffset, confirmOption,
                           visitRotated, allFiles, filesToCopy, isCopying,
                           copyProgress, tasks, mutex, blocked, recordings>>
       [] currentState = StateSettings -> handleSettingsClick
       [] currentState = StateCopyFiles -> handleCopyFilesClick
       [] currentState = StateSystemOptions -> handleSystemOptionsClick
       [] currentState = StateConfirm -> handleConfirmClick
       [] OTHER ->
            UNCHANGED <<currentState, selectedMenu, menuMode,
                        menuScrollOffset, confirmOption, visitRotated,
                        allFiles, filesToCopy, isCopying, copyProgress, tasks,
                        mutex, blocked, recordings>>
  /\ UNCHANGED <<sampleRateIdx, channelCount, isRecording, recordStart,
                 recordingFile, infernoPipeCmd, usbMounted, usbSize, capture,
                 adjusts>>

(* --------------------------- copy goroutine ---------------------------- *)

\* the orders in which ranging over a map can visit the keys of S
Orders(S) ==
  {q \in [1..Cardinality(S) -> S] :
     \A a, b \in 1..Cardinality(S) : a # b => q[a] # q[b]}

\* int(float64(done) / float64(total) * 100)
copyPercent(done, total) == (done * 100) \div total

\* lines 393-406: selectedFiles is built from filesToCopy with no Lock call
CopySelect(t) ==
  /\ tasks[t].pc = "select"
  /\ \E q \in Orders({f \in DOMAIN filesToCopy : filesToCopy[f]}) :
       tasks' = [tasks EXCEPT ![t] =
                   IF Len(q) = 0
                   THEN [@ EXCEPT !.pc = "empty", !.sel = q]
                   ELSE [@ EXCEPT !.pc = "check", !.sel = q, !.i = 1]]
  /\ racy' = {"filesToCopy"}
  /\ UNCHANGED hw
  /\ UNCHANGED <<ctl, mutex, blocked, capture, recordings,
                 visitRotated, adjusts>>

\* lines 409-411: isCopying is read with no Lock call
CopyCheck(t) ==
  /\ tasks[t].pc = "check"
  /\ tasks' = [tasks EXCEPT ![t].pc = IF isCopying THEN "copy" ELSE "finish"]
  /\ racy' = {"isCopying"}
  /\ UNCHANGED hw
  /\ UNCHANGED <<ctl, mutex, blocked, capture, recordings,
                 visitRotated, adjusts>>

\* lines 413-419: copyFile of sel[i], outside the mutex; it may fail, and the
\* error is logged and the loop goes on as after a success
CopyFile(t) ==
  /\ tasks[t].pc = "copy"
  /\ \E failed \in BOOLEAN :
       tasks' = [tasks EXCEPT ![t] =
                   [@ EXCEPT !.pc = "progress", !.err = failed]]
  /\ racy' = {}
  /\ UNCHANGED hw
  /\ UNCHANGED <<ctl, mutex, blocked, capture, recordings, visitRotated,
                 adjusts>>

\* lines 421-423; i = Len(sel) + 1 says the range loop is exhausted
CopyProgress(t) ==
  /\ tasks[t].pc = "progress"
  /\ mutex = "free"
  /\ copyProgress' = copyPercent(tasks[t].i, Len(tasks[t].sel))
  /\ tasks' = [tasks EXCEPT ![t] =
                 IF tasks[t].i = Len(tasks[t].sel)
                 THEN [@ EXCEPT !.pc = "finish", !.i = @ + 1, !.err = FALSE]
                 ELSE [@ EXCEPT !.pc = "check", !.i = @ + 1, !.err = FALSE]]
  /\ racy' = {}
  /\ UNCHANGED hw
  /\ UNCHANGED <<currentState, menuMode, selectedMenu, menuScrollOffset,
                 confirmOption, sampleRateIdx, channelCount, isRecording,
                 isCopying, recordStart, recordingFile, infernoPipeCmd,
                 usbMounted, usbSize, filesToCopy, allFiles, mutex, blocked,
                 capture, recordings, visitRotated, adjusts>>

\* lines 400-405 and 426-429: the goroutine's last critical section
CopyFinish(t) ==
  /\ tasks[t].pc \in {"empty", "finish"}
  /\ mutex = "free"
  /\ isCopying' = FALSE
  /\ currentState' = StateIdle
  /\ tasks' = [tasks EXCEPT ![t] = NoTask]
  /\ racy' = {}
  /\ UNCHANGED hw
  /\ UNCHANGED <<menuMode, selectedMenu, menuScrollOffset, confirmOption,
                 sampleRateIdx, channelCount, isRecording, recordStart,
                 recordingFile, infernoPipeCmd, usbMounted, usbSize,
                 filesToCopy, allFiles, copyProgress, mutex, blocked, capture,
                 recordings, visitRotated, adjusts>>

(* ----------------------- render tick and poller ------------------------ *)

\* the scroll offset renderSettingsMenu leaves (3 visible of 6 items)
settingsScroll ==
  LET a == IF selectedMenu < menuScrollOffset THEN selectedMenu
           ELSE IF selectedMenu >= menuScrollOffset + 3 THEN selectedMenu - 3 + 1
           ELSE menuScrollOffset
      b == IF a > 6 - 3 THEN 6 - 3 ELSE a
  IN IF b < 0 THEN 0 ELSE b

\* the scroll offset renderCopyFilesMenu leaves (3 fixed items, 2 visible files)
copyFilesScroll ==
  LET total == 3 + Len(allFiles)
      a == IF selectedMenu < menuScrollOffset THEN selectedMenu
           ELSE IF selectedMenu >= menuScrollOffset + 3 + 2
             THEN selectedMenu - 3 - 2 + 1
           ELSE menuScrollOffset
      b == IF a > total - 3 - 2 THEN total - 3 - 2 ELSE a
  IN IF b < 0 THEN 0 ELSE b

\* row heights GetFontHeight may report for the menu face
FontHeights == 8..16

\* renderSettingsMenu: the items of allItems[menuScrollOffset:endIdx]
settingsVisible(offset) ==
  LET endIdx == IF offset + 3 > 6 THEN 6 ELSE offset + 3
  IN offset..(endIdx - 1)

\* renderCopyFilesMenu: the three fixed items and the files from fileStartIdx
\* to endIdx, which are computed from the cursor and not from the offset
copyFilesVisible ==
  LET fileOffset == selectedMenu - 3
      fileStartIdx == IF selectedMenu >= 3 /\ fileOffset >= 2
                      THEN fileOffset - 2 + 1 ELSE 0
      endIdx == IF fileStartIdx + 2 > Len(allFiles) THEN Len(allFiles)
                ELSE fileStartIdx + 2
  IN (0..2) \cup {3 + i : i \in fileStartIdx..(endIdx - 1)}

\* DrawMenuItems: the number of items drawn before the loop ends or breaks,
\* i items being drawn already
RECURSIVE menuItemsDrawn(_, _, _)
menuItemsDrawn(count, fontHeight, i) ==
  IF i >= count THEN i
  ELSE IF 24 + (i + 1) * (fontHeight + 2) >= 64 - fontHeight THEN i + 1
  ELSE menuItemsDrawn(count, fontHeight, i + 1)

\* the menu items one render tick draws, the scroll offset being offset
drawnItems(offset, fontHeight) ==
  CASE currentState = StateSettings -> settingsVisible(offset)
    [] currentState = StateCopyFiles -> copyFilesVisible
    [] currentState = StateSystemOptions ->
         0..(menuItemsDrawn(5, fontHeight, 0) - 1)
    [] OTHER -> {}

\* mutant of renderReads: the tick also brings the cursor back to the first
\* item when it is past the last one
renderReads_ClampCursor ==
  /\ selectedMenu' = IF maxItems > 0 /\ selectedMenu >= maxItems - 1
                     THEN 0 ELSE selectedMenu
  /\ UNCHANGED <<currentState, menuMode, confirmOption,
                 sampleRateIdx, channelCount, isRecording, isCopying,
                 recordStart, recordingFile, infernoPipeCmd, usbMounted,
                 usbSize, filesToCopy, allFiles, copyProgress>>

\* the package variables the render functions only read
renderReads ==
  UNCHANGED <<currentState, menuMode, selectedMenu, confirmOption,
              sampleRateIdx, channelCount, isRecording, isCopying,
              recordStart, recordingFile, infernoPipeCmd, usbMounted,
              usbSize, filesToCopy, allFiles, copyProgress>>

\* render: one critical section; of the controller it writes the offset only.
\* The panel is not observed in the specifications of the controller: what the
\* tick does to it, call by call, are the steps of SpecDisplay below.
render ==
  /\ mutex = "free"
  /\ menuScrollOffset' =
       CASE currentState = StateSettings -> settingsScroll
         [] currentState = StateCopyFiles -> copyFilesScroll
         [] OTHER -> menuScrollOffset
  /\ racy' = {}
  /\ renderReads
  /\ UNCHANGED hw
  /\ UNCHANGED <<mutex, blocked, capture, recordings, tasks, visitRotated,
                 adjusts>>

\* one round of detectUSB, the volume being one of the capacities caps (in
\* MiB) when it is there: os.Stat outside the mutex, the two writes inside
pollUSB(caps) ==
  /\ mutex = "free"
  /\ \E present \in BOOLEAN :
       IF present
       THEN /\ usbMounted' = TRUE
            /\ \E size \in {""} \cup {getUSBSize(c) : c \in caps} :
                 usbSize' = size
       ELSE /\ usbMounted' = FALSE
            /\ usbSize' = ""
  /\ racy' = {}
  /\ UNCHANGED hw
  /\ UNCHANGED <<currentState, menuMode, selectedMenu, menuScrollOffset,
                 confirmOption, sampleRateIdx, channelCount, isRecording,
                 isCopying, recordStart, recordingFile, infernoPipeCmd,
                 filesToCopy, allFiles, copyProgress, mutex, blocked, capture,
                 recordings, tasks, visitRotated, adjusts>>

detectUSB == pollUSB(Capacities)

(* --------------------------- specifications ---------------------------- *)

Event ==
  \/ \E direction \in {-1, 1} : onEncoderRotate(direction)
  \/ onEncoderClick
  \/ onEncoderHold
  \/ \E buttonType \in ButtonType : onButtonPress(buttonType)

\* what can happen from the program's initial state
Next ==
  \/ Event
  \/ WaitReturns
  \/ ProcExit
  \/ render
  \/ detectUSB

Spec == Init /\ [][Next]_vars

\* The Settings menu with the cursor on any of its six items: the states
\* handleSettingsClick dispatches on.  From Init the cursor never leaves item
\* 0 (C2), so the menus below Settings are studied from here; confirmOption
\* is what an earlier visit to Confirm may have left.
InitNav ==
  \E cursor \in 0..5, option \in {ConfirmNo, ConfirmYes} :
    BootWith(StateSettings, cursor, option, [t \in 1..MaxTasks |-> NoTask],
             1, 2, <<>>)

NextNav ==
  \/ Next
  \/ ActionReturns
  \/ \E t \in 1..MaxTasks :
       \/ CopySelect(t)
       \/ CopyCheck(t)
       \/ CopyFile(t)
       \/ CopyProgress(t)
       \/ CopyFinish(t)

SpecNav == InitNav /\ [][NextNav]_vars

\* The Settings menu entered again after a copy run was cancelled by a Hold:
\* the goroutine of that run exists (go func() has returned to the handler)
\* and has not yet been scheduled, isCopying is false.  The second Start Copy
\* of a session is studied from here.
InitRerun ==
  \E cursor \in 0..5 :
    BootWith(StateSettings, cursor, ConfirmNo,
             [t \in 1..MaxTasks |->
                IF t = 1
                THEN [NoTask EXCEPT !.pc = "select", !.cancelled = TRUE]
                ELSE NoTask],
             1, 2, <<>>)

\* the encoder, the copy goroutines, the render tick and the poller; no
\* button is pressed
NextRerun ==
  \/ \E direction \in {-1, 1} : onEncoderRotate(direction)
  \/ onEncoderClick
  \/ onEncoderHold
  \/ ActionReturns
  \/ render
  \/ detectUSB
  \/ \E t \in 1..MaxTasks :
       \/ CopySelect(t)
       \/ CopyCheck(t)
       \/ CopyFile(t)
       \/ CopyProgress(t)
       \/ CopyFinish(t)

SpecRerun == InitRerun /\ [][NextRerun]_vars

\* The Settings menu with the two recording parameters anywhere in their
\* ranges (the ends of the channel range are 126 Rotate events away from the
\* initial value): the states onEncoderRotate adjusts them in.
InitAdjust ==
  \E cursor \in 0..5, rateIdx \in 0..(Len(sampleRates) - 1),
     channels \in {1, 2, MaxChannelCount - 1, MaxChannelCount} :
    BootWith(StateSettings, cursor, ConfirmNo,
             [t \in 1..MaxTasks |-> NoTask], rateIdx, channels, <<>>)

\* the encoder is turned and held, the render tick runs
NextAdjust ==
  \/ \E direction \in {-1, 1} : onEncoderRotate(direction)
  \/ onEncoderHold
  \/ render

SpecAdjust == InitAdjust /\ [][NextAdjust]_vars

\* The Settings menu with the cursor on Copy Files and the selection an
\* earlier visit to the copy menu left: any files, any flags.
InitSelect ==
  \E selection \in UNION {[S -> BOOLEAN] : S \in SUBSET FileNames} :
    BootWith(StateSettings, 2, ConfirmNo, [t \in 1..MaxTasks |-> NoTask],
             1, 2, selection)

SpecSelect == InitSelect /\ [][NextRerun]_vars

(* --------------------------- sampling loops ---------------------------- *)

\* what a sampling step leaves alone: the controller and its goroutines, and
\* the panel
soft ==
  <<ctl, mutex, blocked, capture, recordings, tasks, visitRotated, adjusts,
    racy, disp>>

\* mutant of rotationOf: the direction is taken from the previous B sample
rotationOf_LastB(a, b) ==
  IF a # lastA /\ a = Low
  THEN {RotateEvent(IF lastB = Low THEN 1 ELSE -1)}
  ELSE {}

\* the rotation one sample of the lines (a, b) decodes to, if any
rotationOf(a, b) ==
  IF a # lastA /\ a = Low
  THEN {RotateEvent(IF b = Low THEN 1 ELSE -1)}
  ELSE {}

\* one sample of the encoder lines
readEncoder(a, b) ==
  /\ emitted' = rotationOf(a, b)
  /\ IF emitted' = {}
     THEN UNCHANGED pending
     ELSE \E ev \in emitted' : emit(ev)
  /\ lastA' = a
  /\ lastB' = b
  /\ UNCHANGED <<buttonDown, buttonTime, pressed, lastPress, level, clock,
                 registered, soft>>

\* mutant of classify: a Click needs more than the 50 ms
classify_Strict(holdTime) ==
  IF holdTime >= 3000 THEN {"Hold"}
  ELSE IF holdTime > 50 THEN {"Click"}
  ELSE {}

\* the event a released encoder button yields for its hold duration
classify(holdTime) ==
  IF holdTime >= 3000 THEN {"Hold"}
  ELSE IF holdTime >= 50 THEN {"Click"}
  ELSE {}

\* one sample of the encoder push button, taken at the instant now
Encoder_readButton(down, now) ==
  /\ now >= clock
  /\ clock' = now
  /\ IF down /\ ~buttonDown
     THEN /\ buttonDown' = TRUE
          /\ buttonTime' = now
          /\ emitted' = {}
     ELSE IF ~down /\ buttonDown
     THEN /\ buttonDown' = FALSE
          /\ buttonTime' = buttonTime
          /\ emitted' = classify(now - buttonTime)
     ELSE /\ UNCHANGED <<buttonDown, buttonTime>>
          /\ emitted' = {}
  /\ IF emitted' = {}
     THEN UNCHANGED pending
     ELSE \E ev \in emitted' : emit(ev)
  /\ UNCHANGED <<lastA, lastB, pressed, lastPress, level, registered, soft>>

\* mutant of debounced: the press is accepted whatever the time since the
\* last accepted one
debounced_Always(button, now) == TRUE

\* a new press is accepted more than 50 ms after the last accepted one
debounced(button, now) == now - lastPress[button] > 50

\* one sample of a momentary button, taken at the instant now
ButtonManager_readButton(button, down, now) ==
  /\ now >= clock
  /\ clock' = now
  /\ IF down /\ ~pressed[button]
     THEN IF debounced(button, now)
          THEN /\ pressed' = [pressed EXCEPT ![button] = TRUE]
               /\ lastPress' = [lastPress EXCEPT ![button] = now]
               /\ emitted' = {button}
               /\ emit(button)
          ELSE /\ UNCHANGED <<pressed, lastPress, pending>>
               /\ emitted' = {}
     ELSE IF ~down /\ pressed[button]
     THEN /\ pressed' = [pressed EXCEPT ![button] = FALSE]
          /\ emitted' = {}
          /\ UNCHANGED <<lastPress, pending>>
     ELSE /\ UNCHANGED <<pressed, lastPress, pending>>
          /\ emitted' = {}
  /\ level' = [level EXCEPT ![button] = down]
  /\ UNCHANGED <<lastA, lastB, buttonDown, buttonTime, registered, soft>>

\* setupHardwareCallbacks sets the next callback
Register ==
  /\ registered < Len(callbackOrder)
  /\ registered' = registered + 1
  /\ UNCHANGED <<lastA, lastB, buttonDown, buttonTime, pressed, lastPress,
                 level, clock, pending, emitted, soft>>

\* the handler of an event
handlerOf(ev) ==
  CASE ev = "Rotate+" -> onEncoderRotate(1)
    [] ev = "Rotate-" -> onEncoderRotate(-1)
    [] ev = "Click" -> onEncoderClick
    [] ev = "Hold" -> onEncoderHold
    [] OTHER -> onButtonPress(ev)

\* a handler goroutine a sampling loop started enters its handler
Deliver == \E ev \in Events : pending[ev] > 0 /\ handlerOf(ev)

SampleEncoder == \E a, b \in {Low, High} : readEncoder(a, b)

SampleKnob ==
  \E down \in BOOLEAN, now \in Instants : Encoder_readButton(down, now)

SampleButtons ==
  \E button \in ButtonType, down \in BOOLEAN, now \in Instants :
    ButtonManager_readButton(button, down, now)

\* the sampling loops as NewEncoder and NewButtonManager start them: the line
\* levels are whatever the pins read, nothing is pressed
HwStart(k) ==
  /\ lastA \in {Low, High}
  /\ lastB \in {Low, High}
  /\ buttonDown = FALSE
  /\ buttonTime = 0
  /\ pressed = [b \in ButtonType |-> FALSE]
  /\ lastPress = [b \in ButtonType |-> 0]
  /\ level = [b \in ButtonType |-> FALSE]
  /\ clock = 0
  /\ registered = k
  /\ pending = [ev \in Events |-> 0]
  /\ emitted = {}
  /\ NewFiraCodeManager

CtlStart ==
  /\ BootCtl(StateIdle, 0, ConfirmNo, [t \in 1..MaxTasks |-> NoTask], 1, 2,
             <<>>)
  /\ recordings = {}

\* the encoder's sampling loop alone, callbacks set
InitEncoder == CtlStart /\ HwStart(Len(callbackOrder))

NextEncoder == SampleEncoder \/ SampleKnob

SpecEncoder == InitEncoder /\ [][NextEncoder]_vars

\* the button manager's sampling loop alone, callbacks set
InitButtons == CtlStart /\ HwStart(Len(callbackOrder))

NextButtons == SampleButtons

SpecButtons == InitButtons /\ [][NextButtons]_vars

\* the instants of the samples when the sampling loops run beside the
\* controller: a press, and a release 200 ms later
InputInstants == {1000, 1200}

\* the program from its start: the sampling loops run from NewEncoder and
\* NewButtonManager on, setupHardwareCallbacks sets the callbacks one by one,
\* and the handler goroutines the loops start run when they get the mutex
InitInput == CtlStart /\ HwStart(0)

SampleKnobIn ==
  \E down \in BOOLEAN, now \in InputInstants : Encoder_readButton(down, now)

SampleButtonsIn ==
  \E button \in ButtonType, down \in BOOLEAN, now \in InputInstants :
    ButtonManager_readButton(button, down, now)

NextInput == Register \/ SampleEncoder \/ SampleKnobIn \/ Deliver

SpecInput == InitInput /\ [][NextInput]_vars

\* the controller mutex held for good: a recording was started, Stop was
\* pressed, and its handler waits in stopRecording for the capture process,
\* which does not exit
InitHeld ==
  /\ currentState = StateRecording
  /\ menuMode = SettingsMenu
  /\ selectedMenu = 0
  /\ menuScrollOffset = 0
  /\ confirmOption = ConfirmNo
  /\ sampleRateIdx = 1
  /\ channelCount = 2
  /\ isRecording = TRUE
  /\ isCopying = FALSE
  /\ recordStart = 1
  /\ recordingFile = <<1, 2, 48>>
  /\ infernoPipeCmd = "started"
  /\ usbMounted = FALSE
  /\ usbSize = ""
  /\ filesToCopy = <<>>
  /\ allFiles = <<>>
  /\ copyProgress = 0
  /\ mutex = "handler"
  /\ blocked = "wait"
  /\ capture = 1
  /\ recordings = {}
  /\ tasks = [t \in 1..MaxTasks |-> NoTask]
  /\ visitRotated = FALSE
  /\ adjusts = 0
  /\ racy = {}
  /\ HwStart(Len(callbackOrder))

NextHeld == SampleEncoder \/ SampleKnobIn \/ SampleButtonsIn

SpecHeld == InitHeld /\ [][NextHeld]_vars

\* capacities in MiB around the thresholds of the three units and of the
\* rounding: 0, 1, 3, 5, 6, 11, 12, 23, 45, 100, 488, 512, 700, 1000 and
\* 1023 MiB; 1, 3.7, 15.8, 23, 24, 46 and 1023 GiB; 1, 2.1 and 3 TiB
SizeInputs ==
  {0, 1, 3, 5, 6, 11, 12, 23, 45, 100, 488, 512, 700, 1000, 1023,
   1024, 3788, 16179, 23552, 24576, 47104, 1048575,
   1048576, 2202009, 3145728}

\* the program with a volume of any of these capacities
NextSize ==
  \/ Event
  \/ WaitReturns
  \/ ProcExit
  \/ render
  \/ pollUSB(SizeInputs)

InitSize == CtlStart /\ HwRest

SpecSize == InitSize /\ [][NextSize]_vars

TypeOK ==
  /\ currentState \in AppState
  /\ menuMode \in MenuMode
  /\ selectedMenu \in 0..(MaxFiles + 5)
  /\ menuScrollOffset \in 0..(MaxFiles + 5)
  /\ confirmOption \in {ConfirmNo, ConfirmYes}
  /\ sampleRateIdx \in 0..3
  /\ channelCount \in 1..MaxChannelCount
  /\ isRecording \in BOOLEAN
  /\ isCopying \in BOOLEAN
  /\ recordStart \in 0..MaxTime
  /\ infernoPipeCmd \in {"nil", "unstarted", "started"}
  /\ usbMounted \in BOOLEAN
  /\ DOMAIN filesToCopy \subseteq FileNames
  /\ copyProgress \in 0..100
  /\ mutex \in {"free", "handler", "render"}
  /\ blocked \in {"none", "wait"} \cup Actions
  /\ capture \in 0..1
  /\ recordings \subseteq FileNames
  /\ adjusts \in 0..MaxAdjust
  /\ lastA \in {Low, High}
  /\ lastB \in {Low, High}
  /\ buttonDown \in BOOLEAN
  /\ buttonTime \in {0} \cup Instants
  /\ pressed \in [ButtonType -> BOOLEAN]
  /\ lastPress \in [ButtonType -> {0} \cup Instants]
  /\ level \in [ButtonType -> BOOLEAN]
  /\ clock \in {0} \cup Instants
  /\ registered \in 0..Len(callbackOrder)
  /\ pending \in [Events -> 0..MaxPending]
  /\ emitted \subseteq Events
  /\ currentFont \in {"Regular", "Bold", "Light", "Medium", "SemiBold"}
  /\ currentSize \in {8, 9, 10, 11, 13, 14, 16}
  /\ phase \in 0..3
  /\ \A i \in DOMAIN bus : bus[i].dc \in {Low, High}

(* ------------------------------- claims -------------------------------- *)

\* Steps of the handler of a Stop press: the press itself and, when it had to
\* wait for the capture process, the return of that wait.
StopHandling == onButtonPress(StopButton) \/ WaitReturns

\* Events other than a Stop press.
OtherEvent ==
  \/ \E direction \in {-1, 1} : onEncoderRotate(direction)
  \/ onEncoderClick
  \/ onEncoderHold
  \/ onButtonPress(RecordButton)
  \/ onButtonPress(PlayButton)

\* C1: Recording is entered only from Idle (by a Record press); while the
\* state is Recording no Rotate, Click, Hold, Record or Play event changes it,
\* and the handling of a Stop press leaves it Recording or makes it Idle.
C1_RecordingLeftOnlyByStop ==
  [][/\ (currentState # StateRecording /\ currentState' = StateRecording)
          => (currentState = StateIdle /\ onButtonPress(RecordButton))
     /\ (currentState = StateRecording /\ OtherEvent)
          => currentState' = StateRecording
     /\ (currentState = StateRecording /\ StopHandling)
          => currentState' \in {StateRecording, StateIdle}]_vars

\* a recording was started and then ended by a Stop press
C1_Witness ==
  /\ currentState = StateIdle
  /\ recordStart > 0
  /\ infernoPipeCmd = "nil"
  /\ ~isRecording

\* C2: from Settings with the cursor on item 0 some encoder event moves the
\* cursor to another item of the menu (without which no item below is
\* reached).
C2_CursorCanLeaveItem0 ==
  (currentState = StateSettings /\ selectedMenu = 0 /\ blocked = "none")
    => ENABLED (/\ \/ \E direction \in {-1, 1} : onEncoderRotate(direction)
                   \/ onEncoderClick
                /\ currentState' = StateSettings
                /\ selectedMenu' # 0)

\* What the code does instead: from Init only three states are ever entered.
C2_OnlyThreeStates ==
  /\ currentState \in {StateIdle, StateRecording, StateSettings}
  /\ selectedMenu = 0

\* C3: delete-all, format, shutdown and restart start only inside the handling
\* of a Click in Confirm, with confirmOption = Yes, the menuMode of that
\* action, and a Rotate handled since Confirm was entered.
C3_ActionsOnlyFromConfirmYes ==
  [][(blocked' \in Actions /\ blocked \notin Actions)
       => /\ onEncoderClick
          /\ currentState = StateConfirm
          /\ confirmOption = ConfirmYes
          /\ ActionOf(menuMode) = blocked'
          /\ visitRotated]_vars

\* a confirmed format is running
C3_Witness ==
  /\ blocked = "format"
  /\ currentState = StateConfirm
  /\ confirmOption = ConfirmYes

HoldResult ==
  /\ currentState \in {StateSettings, StateCopyFiles, StateSystemOptions,
                        StateNetworkInfo, StateConfirm}
       => /\ currentState' = StateIdle
          /\ selectedMenu' = 0
          /\ menuScrollOffset' = 0
  /\ currentState = StateCopying
       => /\ currentState' = StateIdle
          /\ ~isCopying'
          /\ UNCHANGED <<selectedMenu, menuScrollOffset>>
  /\ currentState = StateIdle => UNCHANGED ctl

C6_RecordOnlyWhenIdle ==
  /\ [](capture <= 1)
  /\ [][(onButtonPress(RecordButton)
           /\ ~(currentState = StateIdle /\ ~isRecording))
          => UNCHANGED <<ctl, capture, tasks, mutex, blocked>>]_vars

\* Idle with a session still open (the end of a copy goroutine put the state
\* back to Idle during a recording): the state in which only the !isRecording
\* half of the guard keeps a second process from being spawned
C6_Witness ==
  /\ currentState = StateIdle
  /\ isRecording
  /\ capture = 1
  /\ recordStart < MaxTime

C8_NoBlockingUnderMutex == blocked # "none" => mutex = "free"

\* The goroutines make progress when they can; nothing makes the capture
\* process exit, and nothing makes the user act.
FairSpec ==
  /\ Spec
  /\ WF_vars(WaitReturns)
  /\ WF_vars(render)
  /\ WF_vars(detectUSB)

\* C9: once the handler of a Stop press has signalled the capture process,
\* the state becomes Idle and isRecording false, whether or not the process
\* exits.
C9_StopReachesIdle ==
  [](blocked = "wait" => <>(currentState = StateIdle /\ ~isRecording))

\* C10: a Record press honoured in Idle whose spawn fails leaves the state,
\* the flag, the process handle, the start time and the file path as before.
C10_FailedStartLeavesNothing ==
  [][(/\ onButtonPress(RecordButton)
      /\ currentState = StateIdle /\ ~isRecording
      /\ infernoPipeCmd' # "started")
       => /\ currentState' = StateIdle
          /\ ~isRecording'
          /\ UNCHANGED <<infernoPipeCmd, recordStart, recordingFile>>]_vars

\* a copy goroutine is alive: its run has begun and has not ended
RunAlive == \E t \in 1..MaxTasks : tasks[t].pc # "none"

C14_ConfirmEnteredWithNo ==
  [][(currentState # StateConfirm /\ currentState' = StateConfirm)
       => /\ confirmOption' = ConfirmNo
          /\ menuMode' \in {DeleteConfirm, FormatConfirm, ShutdownConfirm,
                             RestartConfirm}]_vars

\* Confirm just entered for a format, no Rotate handled yet
C14_Witness ==
  /\ currentState = StateConfirm
  /\ menuMode = FormatConfirm
  /\ confirmOption = ConfirmNo
  /\ ~visitRotated

\* the handling of a Click in Confirm: the Click and, when an action was
\* started, its return
ConfirmClick == onEncoderClick /\ currentState = StateConfirm

EntersConfirm ==
  /\ currentState' = StateConfirm
  /\ selectedMenu = 0 => menuMode' = DeleteConfirm
  /\ selectedMenu = 1 => menuMode' = FormatConfirm
  /\ selectedMenu = 2 => menuMode' = ShutdownConfirm
  /\ selectedMenu = 3 => menuMode' = RestartConfirm

itemCount ==
  CASE currentState = StateSettings -> 6
    [] currentState = StateCopyFiles -> Len(allFiles) + 3
    [] currentState = StateSystemOptions -> 5

MenuStates == {StateSettings, StateCopyFiles, StateSystemOptions}

\* C17: in Settings, CopyFiles and SystemOptions the cursor is always in
\* 0..itemCount-1, and a Rotate that moves it moves it by one modulo
\* itemCount (past the last item to item 0, before item 0 to the last item).
C17_CursorInRange ==
  /\ [](currentState \in MenuStates => selectedMenu \in 0..(itemCount - 1))
  /\ [][\A d \in {-1, 1} :
          (/\ onEncoderRotate(d)
           /\ currentState \in MenuStates
           /\ selectedMenu' # selectedMenu)
            => selectedMenu' = (selectedMenu + d) % itemCount]_vars

\* the cursor on the last file of a two-file Copy Files menu
C17_Witness ==
  /\ currentState = StateCopyFiles
  /\ Len(allFiles) = 2
  /\ selectedMenu = Len(allFiles) + 2

C18_ScrolledMenusOnly ==
  \A fontHeight \in FontHeights :
    currentState \in {StateSettings, StateCopyFiles}
      => ~ENABLED (/\ render
                   /\ ~(/\ selectedMenu \in drawnItems(menuScrollOffset',
                                                       fontHeight)
                        /\ menuScrollOffset' \in 0..selectedMenu))

\* what C19 says a Rotate(d) handled in Settings ends with
RotateResult(d) ==
  /\ selectedMenu = 0
       => /\ sampleRateIdx' = (sampleRateIdx + d) % 4
          /\ UNCHANGED <<channelCount, selectedMenu>>
  /\ selectedMenu = 1
       => /\ channelCount' =
               (IF channelCount + d < 1 THEN 1
                ELSE IF channelCount + d > 128 THEN 128 ELSE channelCount + d)
          /\ UNCHANGED <<sampleRateIdx, selectedMenu>>
  /\ selectedMenu \in 2..5
       => /\ selectedMenu' = (selectedMenu + d) % 6
          /\ UNCHANGED <<sampleRateIdx, channelCount>>

C20_ParametersOnlyBySettingsRotate ==
  [][/\ sampleRateIdx' # sampleRateIdx
          => /\ \E d \in {-1, 1} : onEncoderRotate(d)
             /\ currentState = StateSettings
             /\ selectedMenu = 0
     /\ channelCount' # channelCount
          => /\ \E d \in {-1, 1} : onEncoderRotate(d)
             /\ currentState = StateSettings
             /\ selectedMenu = 1
     /\ (isRecording \/ capture > 0)
          => UNCHANGED <<sampleRateIdx, channelCount>>]_vars

\* a recording session made with an adjusted sample rate
C20_Witness ==
  /\ isRecording
  /\ currentState = StateRecording
  /\ adjusts = 1
  /\ sampleRateIdx # 1


\* C21: in Confirm no Rotate, of either direction, can end otherwise than with
\* confirmOption flipped and every other controller field as it was (so two
\* Rotate events restore the option).
C21_RotateFlipsOption ==
  \A d \in {-1, 1} :
    currentState = StateConfirm
      => ~ENABLED (/\ onEncoderRotate(d)
                   /\ ~(/\ confirmOption' # confirmOption
                        /\ confirmOption' \in {ConfirmNo, ConfirmYes}
                        /\ UNCHANGED <<currentState, menuMode, selectedMenu,
                                       menuScrollOffset, sampleRateIdx,
                                       channelCount, isRecording, isCopying,
                                       recordStart, recordingFile,
                                       infernoPipeCmd, usbMounted, usbSize,
                                       filesToCopy, allFiles, copyProgress>>))

\* Confirm with the option back on No after Rotate events were handled
C21_Witness ==
  /\ currentState = StateConfirm
  /\ confirmOption = ConfirmNo
  /\ visitRotated
  /\ blocked = "none"


\* C22: a Click on Copy Files (Settings, item 2) enters CopyFiles when
\* usbMounted is true, and a Click on Start Copy (CopyFiles, item 0) starts a
\* copy goroutine and enters Copying when usbMounted is true; with usbMounted
\* false neither Click can change a controller field or start a goroutine.
C22_CopyGatedOnVolume ==
  /\ (currentState = StateSettings /\ selectedMenu = 2)
       => ~ENABLED (/\ onEncoderClick
                    /\ ~(IF usbMounted
                         THEN currentState' = StateCopyFiles
                         ELSE UNCHANGED <<ctl, tasks>>))
  /\ (currentState = StateCopyFiles /\ selectedMenu = 0)
       => ~ENABLED (/\ onEncoderClick
                    /\ ~(IF usbMounted
                         THEN /\ currentState' = StateCopying
                              /\ \E t \in 1..MaxTasks :
                                   /\ tasks[t].pc = "none"
                                   /\ tasks'[t].pc = "select"
                         ELSE UNCHANGED <<ctl, tasks>>))

\* the cursor on Start Copy after the volume went away
C22_Witness ==
  /\ currentState = StateCopyFiles
  /\ selectedMenu = 0
  /\ ~usbMounted
  /\ \A t \in 1..MaxTasks : tasks[t].pc = "none"


\* C23: the keys of filesToCopy are always the names in allFiles, and no Click
\* that enters CopyFiles can end otherwise than with allFiles the sorted list
\* of the recordings under /rec and filesToCopy true on exactly those names.
C23_SelectionRebuilt ==
  /\ DOMAIN filesToCopy = {allFiles[k] : k \in 1..Len(allFiles)}
  /\ (currentState = StateSettings /\ selectedMenu = 2 /\ usbMounted)
       => ~ENABLED (/\ onEncoderClick
                    /\ ~(/\ currentState' = StateCopyFiles
                         /\ allFiles' = SortedSeq(recordings)
                         /\ DOMAIN filesToCopy' = recordings
                         /\ \A f \in recordings : filesToCopy'[f]))

\* the copy menu just entered with two recordings, both selected
C23_Witness ==
  /\ currentState = StateCopyFiles
  /\ selectedMenu = 0
  /\ recordings = {1, 2}
  /\ allFiles = <<1, 2>>
  /\ \A f \in recordings : filesToCopy[f]


\* C26: a sample of the encoder lines emits exactly one Rotate when A fell
\* since the previous sample, with direction +1 if B is low at that sample
\* and -1 if B is high, and emits nothing on a rising edge of A or on a change
\* of B alone.
C26_RotatePerFallingEdge ==
  [][\A a, b \in {Low, High} :
       readEncoder(a, b) =>
         IF lastA = High /\ a = Low
         THEN LET ev == IF b = Low THEN "Rotate+" ELSE "Rotate-"
              IN /\ emitted' = {ev}
                 /\ pending' = [pending EXCEPT ![ev] = @ + 1]
         ELSE /\ emitted' = {}
              /\ pending' = pending]_vars

\* A fell while B, high at the previous sample, was low: one Rotate(+1)
C26_Witness ==
  /\ emitted = {"Rotate+"}
  /\ pending["Rotate+"] = 1
  /\ lastA = Low
  /\ lastB = Low

\* C27: a sample of the encoder push button emits only at a release, and then
\* by the hold duration h: nothing if h < 50 ms, one Click if
\* 50 ms <= h < 3000 ms, one Hold if h >= 3000 ms.
C27_ClassifiedAtRelease ==
  [][\A down \in BOOLEAN, now \in Instants :
       Encoder_readButton(down, now) =>
         LET h == now - buttonTime
             ev == IF h >= 3000 THEN "Hold" ELSE "Click"
         IN IF buttonDown /\ ~down /\ h >= 50
            THEN /\ emitted' = {ev}
                 /\ pending' = [pending EXCEPT ![ev] = @ + 1]
            ELSE /\ emitted' = {}
                 /\ pending' = pending]_vars

\* a press released after exactly 50 ms gave one Click
C27_Witness ==
  /\ emitted = {"Click"}
  /\ pending["Click"] = 1
  /\ ~buttonDown
  /\ clock - buttonTime = 50

\* C28: the press of a momentary button that produced a ButtonEvent is not
\* released before it has lasted 50 ms.
C28_ShortPressNoEvent ==
  [][\A button \in ButtonType, now \in Instants :
       ButtonManager_readButton(button, FALSE, now) =>
         (pressed[button] /\ pending[button] > 0
            => now - lastPress[button] >= 50)]_vars


\* the samples the lines and the clock allow
Samples ==
  [kind : {"lines"}, a : {Low, High}, b : {Low, High}]
    \cup [kind : {"knob"}, down : BOOLEAN,
          now : {t \in InputInstants : t >= clock}]
    \cup [kind : {"button"}, button : ButtonType, down : BOOLEAN,
          now : {t \in InputInstants : t >= clock}]

Take(s) ==
  CASE s.kind = "lines" -> readEncoder(s.a, s.b)
    [] s.kind = "knob" -> Encoder_readButton(s.down, s.now)
    [] s.kind = "button" -> ButtonManager_readButton(s.button, s.down, s.now)

\* C24: while the controller mutex is held, every sample the lines and the
\* clock allow is taken: no sampling step waits for the mutex or for a handler,
\* and none changes the mutex (as long as the model's bound on waiting handler
\* goroutines leaves room for one more).
C24_SamplingNeverWaits ==
  (mutex = "handler" /\ Total(pending) < MaxPending)
    => \A s \in Samples :
         ENABLED (Take(s) /\ mutex' = mutex /\ blocked' = blocked)

\* with the mutex held a rotation and a Stop press were detected, and their
\* handler goroutines wait
C24_Witness ==
  /\ mutex = "handler"
  /\ blocked = "wait"
  /\ pending["Rotate+"] = 1
  /\ pending[StopButton] = 1
  /\ emitted = {StopButton}

\* the steps of the sampling loops
Sampled == SampleEncoder \/ SampleKnobIn \/ SampleButtonsIn

\* C25: every event a sample detects starts one run of its handler.
C25_DetectedIsDelivered ==
  [][Sampled => \A ev \in emitted' : pending'[ev] = pending[ev] + 1]_vars


\* whole units of a capacity given in MiB, and the suffix of its unit
wholeUnits(mib) ==
  IF mib < 1024 THEN mib
  ELSE IF mib < 1024 * 1024 THEN mib \div 1024
  ELSE mib \div (1024 * 1024)

unitSuffix(mib) ==
  IF mib < 1024 THEN "mb" ELSE IF mib < 1024 * 1024 THEN "GB" ELSE "TB"

PowersOfTwo == {Pow2(k) : k \in 0..11}

Distance(n, v) == IF n >= v THEN n - v ELSE v - n

\* the powers of two nearest to v
Nearest(v) ==
  {n \in PowersOfTwo : \A m \in PowersOfTwo : Distance(n, v) <= Distance(m, v)}

\* the power of two whose exponent is nearest to log2 v: n/sqrt(2) <= v <
\* n*sqrt(2), and 1 for v = 0
NearestExponent(v) ==
  {n \in PowersOfTwo :
     IF v <= 0 THEN n = 1 ELSE n * n <= 2 * v * v /\ v * v < 2 * n * n}

\* a poll of a volume of mib MiB writes a label
Labelled(mib) == pollUSB({mib}) /\ usbSize' # ""

C33_RenderWritesOffsetOnly ==
  ~ENABLED (/\ render
            /\ <<currentState, selectedMenu, confirmOption, menuMode,
                 sampleRateIdx, channelCount, isRecording, isCopying,
                 copyProgress, filesToCopy, allFiles, usbMounted, usbSize,
                 recordStart, recordingFile, infernoPipeCmd>>'
                 # <<currentState, selectedMenu, confirmOption, menuMode,
                     sampleRateIdx, channelCount, isRecording, isCopying,
                     copyProgress, filesToCopy, allFiles, usbMounted, usbSize,
                     recordStart, recordingFile, infernoPipeCmd>>)

\* a tick has scrolled the Settings menu down to the cursor
C33_Witness ==
  /\ currentState = StateSettings
  /\ selectedMenu = 5
  /\ menuScrollOffset = 3


\* the events other than Hold
NotHold ==
  \/ \E direction \in {-1, 1} : onEncoderRotate(direction)
  \/ onEncoderClick
  \/ \E buttonType \in ButtonType : onButtonPress(buttonType)

\* C34: in NetworkInfo and in Copying a Rotate, a Click and a press of any of
\* the three buttons leave every controller field unchanged, and no step but
\* a Hold or, in Copying, the last critical section of a copy goroutine
\* changes currentState.
C34_OnlyHoldLeaves ==
  currentState \in {StateNetworkInfo, StateCopying} =>
    /\ ~ENABLED (NotHold /\ ctl' # ctl)
    /\ ~ENABLED (/\ NextNav
                 /\ currentState' # currentState
                 /\ ~onEncoderHold
                 /\ ~(/\ currentState = StateCopying
                      /\ \E t \in 1..MaxTasks : CopyFinish(t)))

\* NetworkInfo entered from Settings, after a render tick
C34_Witness ==
  /\ currentState = StateNetworkInfo
  /\ selectedMenu = 0
  /\ menuScrollOffset = 0
  /\ mutex = "free"


InLoop(t) == tasks[t].pc \in {"check", "copy", "progress"}

C38_HoldInConfirmCancels ==
  (currentState = StateConfirm /\ mutex = "free") =>
    /\ ENABLED onEncoderHold
    /\ ~ENABLED (/\ onEncoderHold
                 /\ ~(/\ currentState' = StateIdle
                      /\ blocked' = "none"
                      /\ mutex' = "free"
                      /\ recordings' = recordings
                      /\ capture' = capture))

\* a deletion confirmed with Yes and left by a Hold: the recordings are there
C38_Witness ==
  /\ currentState = StateIdle
  /\ menuMode = DeleteConfirm
  /\ confirmOption = ConfirmYes
  /\ visitRotated
  /\ recordings # {}


\* C37: handlers run in the order of emission.  A consequence is checked: the
\* handler of the event the latest sample emitted does not run while a
\* handler goroutine started before it, for another event, still waits.
C37_HandledInEmissionOrder ==
  [][\A ev \in Events :
       (/\ emitted = {ev}
        /\ pending[ev] = 1
        /\ pending'[ev] = 0)
         => Total(pending) = 1]_vars


\* C40: when the line of a button went active again within 50 ms of an
\* accepted press and has read active since, no further callback is
\* dispatched for that press, however long the button is held.
C40_OneEventPerBouncedPress ==
  [][\A button \in ButtonType, now \in Instants :
       (/\ ButtonManager_readButton(button, TRUE, now)
        /\ level[button]
        /\ ~pressed[button])
         => /\ emitted' = {}
            /\ pending' = pending]_vars


(* ------------------------------ the panel ------------------------------ *)

\* GetFontForContext: the face of a UI context
GetFontForContext(context) ==
  CASE context \in {"statusbar", "time", "counters", "storage"} -> "Regular"
    [] context \in {"recording", "alert", "error", "warning"} -> "Bold"
    [] context \in {"menu", "navigation", "settings"} -> "Regular"
    [] context \in {"details", "filename", "path", "metadata"} -> "Light"
    [] context \in {"emphasis", "selected", "active"} -> "SemiBold"
    [] context \in {"header", "title", "section"} -> "Medium"
    [] OTHER -> "Regular"

\* GetSizeForContext: the size of a UI context, in points
GetSizeForContext(context) ==
  CASE context = "statusbar" -> 9
    [] context \in {"recording", "alert", "header"} -> 14
    [] context \in {"menu", "navigation", "settings"} -> 10
    [] context \in {"title", "section"} -> 13
    [] context \in {"details", "filename", "metadata"} -> 8
    [] context \in {"emphasis", "large"} -> 16
    [] OTHER -> 11

\* The calls of one render tick, in program order.  A call is a record: what
\* it is, the context or the item it is about, whether the caller returns
\* when it fails, and (for Update) the function that makes it.  The tick is a
\* sequence of units, a unit being the calls a failing call returns from.
Call(op, context, item, abort, by) ==
  [op |-> op, context |-> context, item |-> item, abort |-> abort, by |-> by]

\* if err := SwitchToContext(context); err != nil { return err }
Switch(context) == Call("SwitchToContext", context, <<>>, TRUE, "")

\* hwManager.SwitchToContext(context), the error ignored
SwitchOn(context) == Call("SwitchToContext", context, <<>>, FALSE, "")

\* DrawText, DrawTextCentered, DrawStatusBarWithIcons, DrawProgressBar of
\* TTFDisplay: the item is written into the buffer
Draw(name, index) == Call("DrawText", "", <<name, index>>, FALSE, "")

ClearCall == Call("Clear", "", <<>>, FALSE, "")

UpdateBy(by) == Call("Update", "", <<>>, FALSE, by)

\* the write of menuScrollOffset in renderSettingsMenu and renderCopyFilesMenu
ScrollCall == Call("scroll", "", <<>>, FALSE, "")

RECURSIVE Flatten(_)
Flatten(seqs) ==
  IF seqs = <<>> THEN <<>> ELSE Head(seqs) \o Flatten(Tail(seqs))

\* FiraCodeManager.DrawStatusBarWithNetwork
DrawStatusBarWithNetwork ==
  <<Switch("statusbar"), ClearCall, Draw("statusbar", 0),
    UpdateBy("DrawStatusBar")>>

\* FiraCodeManager.DrawCenteredText
DrawCenteredText(name, index, context) ==
  <<Switch(context), Draw(name, index)>>

\* one row of a menu: the face of the row, its label and its value
menuRow(switch, i, hasValue) ==
  <<switch, Draw("item", i)>>
    \o (IF hasValue THEN <<Draw("value", i)>> ELSE <<>>)

rowContext(i) == IF i = selectedMenu THEN "selected" ELSE "menu"

\* FiraCodeManager.DrawMenuItems, count rows being drawn
DrawMenuItems(count) ==
  <<Switch("menu")>>
    \o Flatten([k \in 1..count |->
                  menuRow(Switch(rowContext(k - 1)), k - 1, FALSE)])
    \o <<UpdateBy("DrawMenuItems")>>

\* FiraCodeManager.DrawRecordingStatus
DrawRecordingStatus ==
  <<ClearCall, Switch("recording"), Draw("rec", 0), Switch("details"),
    Draw("remaining", 0)>>
    \o (IF recordingFile # <<>> THEN <<Draw("filename", 0)>> ELSE <<>>)
    \o <<UpdateBy("DrawRecordingStatus")>>

\* FiraCodeManager.DrawProgressBar, details not being empty
DrawProgressBar ==
  <<ClearCall, Switch("header"), Draw("title", 0), Draw("bar", 0),
    Switch("details"), Draw("percent", 0), Draw("details", 0),
    UpdateBy("DrawProgressBar")>>

\* FiraCodeManager.DrawConfirmationDialog
DrawConfirmationDialog(title, message2, selectedOption) ==
  <<ClearCall>>
    \o (IF title THEN <<Switch("alert"), Draw("title", 0)>> ELSE <<>>)
    \o <<Switch("menu"), Draw("message", 1)>>
    \o (IF message2 THEN <<Draw("message", 2)>> ELSE <<>>)
    \o (IF selectedOption = 1
        THEN <<Switch("selected"), Draw("yes", 0), Switch("menu"),
               Draw("no", 0)>>
        ELSE <<Switch("menu"), Draw("yes", 0), Switch("selected"),
               Draw("no", 0)>>)
    \o <<UpdateBy("DrawConfirmationDialog")>>

renderIdleScreen ==
  <<DrawCenteredText("standby", 0, "idle"),
    DrawCenteredText("remaining", 0, "details")>>

\* renderSettingsMenu: the header; then the offset, the visible rows (the
\* first two have a value) and the scroll indicators
renderSettingsMenu ==
  LET visible == SortedSeq(settingsVisible(settingsScroll))
  IN <<DrawCenteredText("header", 0, "header"),
       <<ScrollCall>>
         \o Flatten([k \in 1..Len(visible) |->
                       menuRow(Switch(rowContext(visible[k])), visible[k],
                               visible[k] < 2)])
         \o <<SwitchOn("details")>>
         \o (IF settingsScroll > 0 THEN <<Draw("up", 0)>> ELSE <<>>)
         \o (IF settingsScroll + 3 < 6 THEN <<Draw("down", 0)>> ELSE <<>>)>>

\* renderCopyFilesMenu: the header; then the offset, the three fixed rows
\* (Select All has a value), the visible files and the scroll indicators
renderCopyFilesMenu ==
  LET visible == SortedSeq(copyFilesVisible)
      fileOffset == selectedMenu - 3
      fileStartIdx == IF selectedMenu >= 3 /\ fileOffset >= 2
                      THEN fileOffset - 2 + 1 ELSE 0
      endIdx == IF fileStartIdx + 2 > Len(allFiles) THEN Len(allFiles)
                ELSE fileStartIdx + 2
  IN <<DrawCenteredText("header", 0, "header"),
       <<ScrollCall>>
         \o Flatten([k \in 1..Len(visible) |->
                       menuRow(SwitchOn(rowContext(visible[k])), visible[k],
                               visible[k] = 1)])
         \o (IF Len(allFiles) > 2
             THEN <<SwitchOn("details")>>
                    \o (IF fileStartIdx > 0 THEN <<Draw("up", 0)>>
                        ELSE <<>>)
                    \o (IF endIdx < Len(allFiles) THEN <<Draw("down", 0)>>
                        ELSE <<>>)
             ELSE <<>>)>>

renderCopyProgress ==
  <<DrawProgressBar, DrawCenteredText("cancel", 0, "details")>>

\* renderSystemOptionsMenu, GetFontHeight returning fontHeight
renderSystemOptionsMenu(fontHeight) ==
  <<DrawCenteredText("header", 0, "header"),
    DrawMenuItems(menuItemsDrawn(5, fontHeight, 0))>>

renderConfirmDialog ==
  <<DrawConfirmationDialog(
      menuMode \in {DeleteConfirm, FormatConfirm, ShutdownConfirm,
                    RestartConfirm},
      menuMode \in {DeleteConfirm, FormatConfirm},
      IF confirmOption = ConfirmYes THEN 1 ELSE 0)>>

\* renderNetworkInfo: the context of each line GetDetailedNetworkInfo gives
\* (at most four are drawn) when GetNetworkInfo fails ("error"), finds the
\* link down, up without an address ("up"), or connected: the first line is
\* the interface, "Status: Connected" is emphasised
networkContexts(link) ==
  CASE link = "error" -> <<"menu", "details">>
    [] link = "down" -> <<"menu", "details", "details">>
    [] link = "up" -> <<"menu", "details", "details", "details">>
    [] OTHER -> <<"menu", "emphasis", "details", "details">>

renderNetworkInfo(link) ==
  <<DrawCenteredText("header", 0, "header")>>
    \o [i \in 1..Len(networkContexts(link)) |->
          DrawCenteredText("line", i - 1, networkContexts(link)[i])]
    \o <<DrawCenteredText("back", 0, "details")>>

\* render, between mutex.Lock and mutex.Unlock: ClearDisplay,
\* renderStatusBar, the screen of the state, UpdateDisplay
renderCalls(fontHeight, link) ==
  <<<<ClearCall>>, DrawStatusBarWithNetwork>>
    \o (CASE currentState = StateIdle -> renderIdleScreen
          [] currentState = StateRecording -> <<DrawRecordingStatus>>
          [] currentState = StateSettings -> renderSettingsMenu
          [] currentState = StateCopyFiles -> renderCopyFilesMenu
          [] currentState = StateCopying -> renderCopyProgress
          [] currentState = StateSystemOptions ->
               renderSystemOptionsMenu(fontHeight)
          [] currentState = StateNetworkInfo -> renderNetworkInfo(link)
          [] currentState = StateConfirm -> renderConfirmDialog
          [] OTHER -> <<>>)
    \o <<<<UpdateBy("UpdateDisplay")>>>>


\* the call render makes next, and what is left when it has returned
NextCall == Head(Head(todo))

Returned ==
  IF Len(Head(todo)) = 1 THEN Tail(todo)
  ELSE <<Tail(Head(todo))>> \o Tail(todo)

\* render is about to make a call of this kind
Calls(op) ==
  /\ mutex = "render"
  /\ todo # <<>>
  /\ NextCall.op = op

\* what no step of the tick writes
tickReads ==
  /\ renderReads
  /\ UNCHANGED <<inp, pending, mutex, blocked, capture, recordings, tasks,
                 visitRotated, adjusts, racy>>

\* render takes the mutex: a new tick
renderLocks ==
  /\ mutex = "free"
  /\ todo = <<>>
  /\ mutex' = "render"
  /\ \E fontHeight \in FontHeights,
        link \in {"error", "down", "up", "connected"} :
       todo' = renderCalls(fontHeight, link)
  /\ bus' = <<>>
  /\ drawn' = {}
  /\ racy' = {}
  /\ renderReads
  /\ UNCHANGED <<inp, pending, blocked, capture, recordings, tasks,
                 visitRotated, adjusts, menuScrollOffset, currentFont,
                 currentSize, buffer, phase>>

\* the deferred mutex.Unlock
renderUnlocks ==
  /\ mutex = "render"
  /\ todo = <<>>
  /\ mutex' = "free"
  /\ renderReads
  /\ UNCHANGED <<inp, pending, blocked, capture, recordings, tasks,
                 visitRotated, adjusts, racy, menuScrollOffset, disp>>

\* TTFDisplay.Clear: canvas and buffer are zeroed
Clear ==
  /\ Calls("Clear")
  /\ buffer' = {}
  /\ todo' = Returned
  /\ tickReads
  /\ UNCHANGED <<menuScrollOffset, currentFont, currentSize, phase, bus,
                 drawn>>

\* a drawing primitive of TTFDisplay: canvas and buffer get the item
DrawText ==
  /\ Calls("DrawText")
  /\ buffer' = buffer \cup {NextCall.item}
  /\ drawn' = drawn \cup {NextCall.item}
  /\ todo' = Returned
  /\ tickReads
  /\ UNCHANGED <<menuScrollOffset, currentFont, currentSize, phase, bus>>

\* the offset renderSettingsMenu and renderCopyFilesMenu write
scroll ==
  /\ Calls("scroll")
  /\ menuScrollOffset' =
       CASE currentState = StateSettings -> settingsScroll
         [] currentState = StateCopyFiles -> copyFilesScroll
         [] OTHER -> menuScrollOffset
  /\ todo' = Returned
  /\ tickReads
  /\ UNCHANGED <<currentFont, currentSize, buffer, phase, bus, drawn>>

\* one write on the bus: the level of the command/data line, what is sent,
\* the function whose call it belongs to, the number of the Update in the
\* tick (0 for init), whether Tx succeeded, and the frame when it is one
Write(dc, op, by, call, ok, frame) ==
  [dc |-> dc, op |-> op, by |-> by, call |-> call, ok |-> ok,
   frame |-> frame]

\* TTFDisplay.init, from NewTTFDisplay: the initialisation sequence, every
\* command through writeCommand
init(ok) == Write(Low, "init", "switchFont", 0, ok, {})

\* the same, from the NewTTFDisplay that restores the previous face
restore == Write(Low, "init", "restore", 0, TRUE, {})

\* the calls that failed in this tick: a Tx, or the loading of a face
faults ==
  Cardinality({i \in DOMAIN bus : ~bus[i].ok \/ bus[i].by = "restore"})

\* what a call that may fail can do: at most MaxFaults calls fail in a tick
Outcomes(all) == IF faults < MaxFaults THEN all ELSE {"ok"}

\* FiraCodeManager.SwitchToContext and switchFont.  The display is closed
\* and another is made: it is made ("ok"), or the face cannot be loaded
\* ("font"), or a command of init fails ("tx"); in the last two cases a
\* display with the previous face is made, which is taken to succeed, and
\* the error is returned.  A new display has an empty buffer.
SwitchToContext ==
  /\ Calls("SwitchToContext")
  /\ LET fontPath == GetFontForContext(NextCall.context)
         fontSize == GetSizeForContext(NextCall.context)
     IN IF fontPath = currentFont /\ fontSize = currentSize
        THEN /\ todo' = Returned
             /\ UNCHANGED <<currentFont, currentSize, buffer, bus>>
        ELSE \E outcome \in Outcomes({"ok", "font", "tx"}) :
               /\ buffer' = {}
               /\ bus' = bus \o (CASE outcome = "ok" -> <<init(TRUE)>>
                                   [] outcome = "font" -> <<restore>>
                                   [] OTHER -> <<init(FALSE), restore>>)
               /\ IF outcome = "ok"
                  THEN /\ currentFont' = fontPath
                       /\ currentSize' = fontSize
                       /\ todo' = Returned
                  ELSE /\ UNCHANGED <<currentFont, currentSize>>
                       /\ todo' = IF NextCall.abort THEN Tail(todo)
                                  ELSE Returned
  /\ tickReads
  /\ UNCHANGED <<menuScrollOffset, phase, drawn>>

\* the three commands and the data of TTFDisplay.Update, in program order
UpdatePhases == <<"column", "row", "ram", "frame">>

\* the Update calls begun in this tick
updates == Cardinality({i \in DOMAIN bus : bus[i].op = "column"})

\* writeCommand: the line low, then Tx
writeCommand(op, by, call, ok) == Write(Low, op, by, call, ok, {})

\* writeData: the line high, then Tx of the buffer
writeData(by, call, ok) == Write(High, "frame", by, call, ok, buffer)

\* mutant of txReturns: Update goes on after a command that failed
txReturns_Last(ok) == phase = 3

\* Update returns after this write: it failed, or it was the data
txReturns(ok) == ~ok \/ phase = 3

\* TTFDisplay.Update, one write at a time
Update ==
  /\ Calls("Update")
  /\ \E ok \in {outcome = "ok" : outcome \in Outcomes({"ok", "tx"})} :
       LET call == IF phase = 0 THEN updates + 1 ELSE updates
       IN /\ bus' = Append(bus,
                      IF phase < 3
                      THEN writeCommand(UpdatePhases[phase + 1], NextCall.by,
                                        call, ok)
                      ELSE writeData(NextCall.by, call, ok))
          /\ IF txReturns(ok)
             THEN /\ phase' = 0
                  /\ todo' = Returned
             ELSE /\ phase' = phase + 1
                  /\ UNCHANGED todo
  /\ tickReads
  /\ UNCHANGED <<menuScrollOffset, currentFont, currentSize, buffer, drawn>>

\* The program with the panel: the handlers that change the screen, and
\* the steps of render.  As in InitNav the cursor is on any item of the
\* Settings menu, so that the screens below it are drawn too.
InitDisplay ==
  /\ \E cursor \in 0..5 :
       BootCtl(StateSettings, cursor, ConfirmNo,
               [t \in 1..MaxTasks |-> NoTask], 1, 2, <<>>)
  /\ recordings = {}
  /\ HwRest

NextDisplay ==
  \/ onEncoderClick
  \/ onEncoderHold
  \/ \E buttonType \in ButtonType : onButtonPress(buttonType)
  \/ WaitReturns
  \/ ProcExit
  \/ renderLocks
  \/ Clear
  \/ SwitchToContext
  \/ DrawText
  \/ scroll
  \/ Update
  \/ renderUnlocks

SpecDisplay == InitDisplay /\ [][NextDisplay]_vars


Last(s) == s[Len(s)]

\* the places on the bus of the writes of the n-th Update of the tick
WritesOf(n) == {i \in DOMAIN bus : bus[i].call = n}

\* C31: every Update is one transaction on the bus.  Its writes are next to
\* each other (no write of another Update, and none of an initialisation
\* sequence, lies between them); they are the column command, the row
\* command and the RAM command with the command/data line low, then the
\* frame with the line high; no write follows one that failed; an Update
\* that has returned has sent its frame unless a write failed; and the frame
\* of the tick's last Update is the whole buffer.
C31_UpdateIsOneTransaction ==
  /\ \A n \in 1..updates :
       LET first == CHOOSE i \in WritesOf(n) : \A j \in WritesOf(n) : i <= j
           count == Cardinality(WritesOf(n))
       IN /\ WritesOf(n) = first..(first + count - 1)
          /\ count <= 4
          /\ \A k \in 1..count :
               /\ bus[first + k - 1].op = <<"column", "row", "ram", "frame">>[k]
               /\ bus[first + k - 1].dc = IF k < 4 THEN Low ELSE High
               /\ k < count => bus[first + k - 1].ok
          /\ (n < updates \/ phase = 0) =>
               (count = 4 \/ ~bus[first + count - 1].ok)
  /\ (todo = <<>> /\ bus # <<>> /\ Last(bus).op = "frame") =>
       Last(bus).frame = buffer

\* a tick is over in which the row command of one Update failed and a later
\* Update sent its frame
C31_Witness ==
  /\ mutex = "free"
  /\ updates >= 2
  /\ \E i \in DOMAIN bus : bus[i].op = "row" /\ ~bus[i].ok
  /\ Last(bus).op = "frame"
  /\ Last(bus).ok


\* C32: in a render tick only update() writes to the panel bus: every write
\* on the bus belongs to the UpdateDisplay call that ends the tick, none to a
\* composite draw call and none to a switch of the font context.
C32_OnlyUpdateWrites ==
  \A i \in DOMAIN bus : bus[i].by = "UpdateDisplay"


\* C39: the frame the last update of a tick sends holds everything the tick
\* drew, the status bar included.
C39_FinalFrameHoldsTheTick ==
  (/\ mutex # "render"
   /\ bus # <<>>
   /\ Last(bus).by = "UpdateDisplay"
   /\ Last(bus).op = "frame"
   /\ Last(bus).ok)
    => drawn \subseteq Last(bus).frame

====
